---- MODULE Spec2Model ----
(***************************************************************************)
(* A model of the indexing engine of src/main.rs: the AVL tree keyed by    *)
(* file name (one per directory), the fixed-size hash table of directory   *)
(* entries keyed by FNV-1a of (name, path, size), and the two recursive    *)
(* walks that main's loop runs at the start of every iteration.            *)
(*                                                                         *)
(* Strings are sequences of bytes; a path is a sequence of components,     *)
(* each a string, below the filesystem root "/".  Option<T> is a sequence  *)
(* of length 0 (None) or 1 (Some).                                         *)
(***************************************************************************)
EXTENDS Integers, Sequences, FiniteSets, TLC

VARIABLES
    root,        \* SpecAvl: the Ordered Index, Option<Box<AVLTreeNode>>
    inserted,    \* SpecAvl: history of the entries passed to insert_into_avl_tree
    found,       \* SpecAvl: <<path, result>> of a search_avl_tree call on root
    hash_table,  \* SpecHash: the HashTable
    hinserted,   \* SpecHash: history of the entries passed to HashTable::insert
    hpanic,      \* SpecHash: an insert panicked (remainder by zero)
    load,        \* SpecHash: what print_hash_table last computed
    fs,          \* SpecWalk: the filesystem subtree below the walk's root
    fault,       \* SpecWalk: the failing filesystem operation, if any
    order,       \* SpecWalk: the order in which read_dir lists names
    num_buckets, \* SpecWalk: the bucket count typed by the user
    pc,          \* SpecWalk: position in main's loop
    cycle        \* SpecWalk: the outcome of the last indexing cycle

vars == <<root, inserted, found, hash_table, hinserted, hpanic, load,
          fs, fault, order, num_buckets, pc, cycle>>

avlVars == <<root, inserted, found>>
hashVars == <<hash_table, hinserted, hpanic, load>>
walkVars == <<fs, fault, order, num_buckets, pc, cycle>>

----------------------------------------------------------------------------
(* Option<T> *)

None == <<>>

Some(x) == <<x>>

is_some(o) == o # None

unwrap(o) == o[1]

max(a, b) == IF a >= b THEN a ELSE b

----------------------------------------------------------------------------
(* Strings and paths *)

\* String's Ord: byte-wise lexicographic order (the `<` of line 234).
RECURSIVE StrLess(_, _)
StrLess(s, t) ==
    IF t = <<>> THEN FALSE
    ELSE IF s = <<>> THEN TRUE
    ELSE IF s[1] < t[1] THEN TRUE
    ELSE IF s[1] > t[1] THEN FALSE
    ELSE StrLess(Tail(s), Tail(t))

\* PathBuf's Ord: component-wise lexicographic order (the `<` of line 324).
RECURSIVE PathLess(_, _)
PathLess(p, q) ==
    IF q = <<>> THEN FALSE
    ELSE IF p = <<>> THEN TRUE
    ELSE IF StrLess(p[1], q[1]) THEN TRUE
    ELSE IF StrLess(q[1], p[1]) THEN FALSE
    ELSE PathLess(Tail(p), Tail(q))

FileMetadata(name, path, size, file_type) ==
    [name |-> name, path |-> path, size |-> size, file_type |-> file_type]

----------------------------------------------------------------------------
(* The Ordered Index: AVLTreeNode and its functions *)

AVLTreeNode_new(file) ==
    [file |-> Some(file), left |-> None, right |-> None, parent |-> None,
     height |-> 1]

get_height(node) == IF is_some(node) THEN unwrap(node).height ELSE 0

update_height(node) ==
    [node EXCEPT !.height = 1 + max(get_height(node.left), get_height(node.right))]

\* rotate_left that forgets to hand right.left over to node.
rotate_left_drops(node) ==
    LET right == unwrap(node.right)
        node1 == update_height([node EXCEPT !.right = None])
    IN  update_height([right EXCEPT !.left = Some(node1)])

rotate_left(node) ==
    LET right == unwrap(node.right)
        node1 == update_height([node EXCEPT !.right = right.left])
    IN  update_height([right EXCEPT !.left = Some(node1)])

rotate_right(node) ==
    LET left == unwrap(node.left)
        node1 == update_height([node EXCEPT !.left = left.right])
    IN  update_height([left EXCEPT !.right = Some(node1)])

\* balance_avl_tree without the double rotations.
balance_avl_tree_single(node0) ==
    LET node == update_height(node0)
        balance == get_height(node.left) - get_height(node.right)
    IN  IF balance > 1 THEN rotate_right(node)
        ELSE IF balance < -1 THEN rotate_left(node)
        ELSE node

balance_avl_tree(node0) ==
    LET node == update_height(node0)
        balance == get_height(node.left) - get_height(node.right)
    IN  IF balance > 1 THEN
            IF get_height(unwrap(node.left).left) >= get_height(unwrap(node.left).right)
            THEN rotate_right(node)
            ELSE rotate_right([node EXCEPT !.left = Some(rotate_left(unwrap(node.left)))])
        ELSE IF balance < -1 THEN
            IF get_height(unwrap(node.right).right) >= get_height(unwrap(node.right).left)
            THEN rotate_left(node)
            ELSE rotate_left([node EXCEPT !.right = Some(rotate_right(unwrap(node.right)))])
        ELSE node

\* insert_into_avl_tree with the comparison turned round (`>` for `<`).
RECURSIVE insert_into_avl_tree_flipped(_, _)
insert_into_avl_tree_flipped(r, file) ==
    IF is_some(r) THEN
        LET node == unwrap(r)
            new_node == node
        IN  IF StrLess(unwrap(node.file).name, file.name)
            THEN Some(balance_avl_tree(
                     [new_node EXCEPT !.left = insert_into_avl_tree_flipped(node.left, file)]))
            ELSE Some(balance_avl_tree(
                     [new_node EXCEPT !.right = insert_into_avl_tree_flipped(node.right, file)]))
    ELSE Some(AVLTreeNode_new(file))

\* Returns the Box as Some(node), so that the result can be stored as a child.
RECURSIVE insert_into_avl_tree(_, _)
insert_into_avl_tree(r, file) ==
    IF is_some(r) THEN
        LET node == unwrap(r)
            new_node == node
        IN  IF StrLess(file.name, unwrap(node.file).name)
            THEN Some(balance_avl_tree(
                     [new_node EXCEPT !.left = insert_into_avl_tree(node.left, file)]))
            ELSE Some(balance_avl_tree(
                     [new_node EXCEPT !.right = insert_into_avl_tree(node.right, file)]))
    ELSE Some(AVLTreeNode_new(file))

RECURSIVE search_avl_tree(_, _)
search_avl_tree(r, file_path) ==
    IF is_some(r) /\ is_some(unwrap(r).file) THEN
        LET node == unwrap(r)
            file == unwrap(node.file)
        IN  IF file.path = file_path THEN Some(file)
            ELSE IF PathLess(file.path, file_path)
                 THEN search_avl_tree(node.right, file_path)
                 ELSE search_avl_tree(node.left, file_path)
    ELSE None

----------------------------------------------------------------------------
(* The Directory Hash Index: HashTable and its functions *)

\* A u64 is its eight bytes, least significant first.
\* 1099511628211 = 0x00000100000001B3
FNV_PRIME == <<179, 1, 0, 0, 0, 1, 0, 0>>

\* 14695981039346656037 = 0xCBF29CE484222325
FNV_OFFSET_BASIS == <<37, 35, 34, 132, 228, 156, 242, 203>>

\* a ^ b on the n low bits.
RECURSIVE BitXor(_, _, _)
BitXor(a, b, n) ==
    IF n = 0 THEN 0
    ELSE (((a % 2) + (b % 2)) % 2) + 2 * BitXor(a \div 2, b \div 2, n - 1)

\* hash ^= u64::from(byte): only the low byte changes.
xor_byte(hash, byte) == [hash EXCEPT ![1] = BitXor(hash[1], byte, 8)]

\* The sum of a[i] * b[k + 1 - i] for i in 1..n.
RECURSIVE Convolve(_, _, _, _)
Convolve(a, b, k, n) ==
    IF n = 0 THEN 0
    ELSE a[n] * b[k + 1 - n] + Convolve(a, b, k, n - 1)

RECURSIVE MulFrom(_, _, _, _)
MulFrom(a, b, k, carry) ==
    IF k > Len(a) THEN <<>>
    ELSE LET s == carry + Convolve(a, b, k, k)
         IN  <<s % 256>> \o MulFrom(a, b, k + 1, s \div 256)

\* u64::wrapping_mul: the product modulo 2^64.
wrapping_mul(a, b) == MulFrom(a, b, 1, 0)

\* HashTable::hash: FNV-1a over the bytes of key; `hash as usize` keeps the
\* 64 bits (usize is 64 bits wide).
RECURSIVE hash_from(_, _)
hash_from(hash, key) ==
    IF key = <<>> THEN hash
    ELSE hash_from(wrapping_mul(xor_byte(hash, key[1]), FNV_PRIME), Tail(key))

HashTable_hash(key) == hash_from(FNV_OFFSET_BASIS, key)

\* hash % len for a u64 given by its bytes.
RECURSIVE ModFrom(_, _, _)
ModFrom(hash, len, i) ==
    IF i = 0 THEN 0
    ELSE ((ModFrom(SubSeq(hash, 2, Len(hash)), len, i - 1) * 256) + hash[1]) % len

rem(hash, len) == ModFrom(hash, len, Len(hash))

\* {:?} of a str: in quotes, with `"` and `\` escaped by a backslash (the
\* bytes of the model are printable ASCII, which Debug leaves as they are).
RECURSIVE escape_debug(_)
escape_debug(s) ==
    IF s = <<>> THEN <<>>
    ELSE (IF s[1] = 34 \/ s[1] = 92 THEN <<92, s[1]>> ELSE <<s[1]>>)
         \o escape_debug(Tail(s))

fmt_debug_str(s) == <<34>> \o escape_debug(s) \o <<34>>

\* The text of an absolute path: "/" before every component.
RECURSIVE path_str(_)
path_str(p) ==
    IF p = <<>> THEN <<>>
    ELSE <<47>> \o p[1] \o path_str(Tail(p))

fmt_debug_path(p) == fmt_debug_str(path_str(p))

\* {} of a u64: its decimal digits.
RECURSIVE fmt_display_u64(_)
fmt_display_u64(n) ==
    IF n < 10 THEN <<48 + n>>
    ELSE fmt_display_u64(n \div 10) \o <<48 + (n % 10)>>

\* format!("{:?}{:?}{}", file.name, file.path, file.size)
hash_key(file) ==
    fmt_debug_str(file.name) \o fmt_debug_path(file.path) \o fmt_display_u64(file.size)

HashTable_new(size) == [buckets |-> [i \in 1..size |-> <<>>]]

\* HashTable::insert that keeps one copy of equal entries.
HashTable_insert_dedup(table, file) ==
    LET name == hash_key(file)
        hash == HashTable_hash(name)
        len == Len(table.buckets)
        slot == rem(hash, len) + 1
    IN  IF len = 0 THEN None
        ELSE IF \E k \in 1..Len(table.buckets[slot]) : table.buckets[slot][k] = file
        THEN Some(table)
        ELSE Some([table EXCEPT !.buckets[slot] = Append(@, file)])

\* The 0-based index hash % len of the source is bucket index + 1 here.
\* With no bucket the remainder panics (a division by zero): the result is
\* then None, else Some of the table after the push.
HashTable_insert(table, file) ==
    LET name == hash_key(file)
        hash == HashTable_hash(name)
        len == Len(table.buckets)
    IN  IF len = 0 THEN None
        ELSE Some([table EXCEPT !.buckets[rem(hash, len) + 1] = Append(@, file)])

\* An f32 quotient of two counts: NaN for 0.0 / 0.0, else the ratio num/den.
f32_div(num, den) ==
    IF den = 0
    THEN [kind |-> IF num = 0 THEN "NaN" ELSE "inf", num |-> num, den |-> den]
    ELSE [kind |-> "ratio", num |-> num, den |-> den]

\* print_hash_table: the count of non-empty buckets and the load factor.
print_hash_table(table) ==
    LET bucket_count ==
            Cardinality({i \in 1..Len(table.buckets) : table.buckets[i] # <<>>})
    IN  [bucket_count |-> bucket_count,
         load_factor |-> f32_div(bucket_count, Len(table.buckets))]

----------------------------------------------------------------------------
(* The filesystem as the walks see it *)

\* The failing operation of the filesystem, when there is one.
Fails(op, path) == fault = Some([op |-> op, path |-> path])

file_name(path) == path[Len(path)]

\* The entries of a directory in the order read_dir yields them.
read_dir_entries(path) ==
    LET Listed(n) == Append(path, n) \in DOMAIN fs /\ fs[Append(path, n)].kind # "absent"
        names == SelectSeq(order, Listed)
    IN  [i \in 1..Len(names) |-> Append(path, names[i])]

\* fs::read_dir(path).ok(): None when the listing fails.
read_dir(path) ==
    IF Fails("read_dir", path) THEN None ELSE Some(read_dir_entries(path))

\* The bytes of everything below path that is not a directory.
RECURSIVE tree_size(_, _)
tree_size(path, names) ==
    IF names = <<>> THEN 0
    ELSE LET child == Append(path, names[1])
             here == IF child \notin DOMAIN fs THEN 0
                     ELSE IF fs[child].kind = "dir" THEN tree_size(child, order)
                     ELSE fs[child].len
         IN  here + tree_size(path, Tail(names))

\* get_size(&entry.path()): Ok(size) as Some(size), Err as None.
get_size(path) ==
    IF Fails("get_size", path) THEN None ELSE Some(tree_size(path, order))

----------------------------------------------------------------------------
(* The two walks *)

RECURSIVE build_avl_tree(_, _)
RECURSIVE avl_entries(_, _, _)
RECURSIVE build_hash_table(_, _)
RECURSIVE hash_entries(_, _)

\* A push at the front of avlvec instead of the back.
push_root_front(st, path, r) ==
    [st EXCEPT !.avlvec = <<r>> \o @, !.visited = <<path>> \o @]

\* avlvec.push(root.clone()); `visited` records the directory the root is of.
push_root(st, path, r) ==
    [st EXCEPT !.avlvec = Append(@, r), !.visited = Append(@, path)]

\* st is the walk so far: avlvec, the directories whose roots it holds, and
\* whether an unwrap has panicked.  The Option the function returns is used by
\* none of its callers (lines 206, 370) and is left out.
build_avl_tree(path, st) ==
    LET listing == read_dir(path)
    IN  IF listing = None THEN st
        ELSE LET done == avl_entries(unwrap(listing), None, st)
             IN  IF done.st.panic THEN done.st
                 ELSE push_root(done.st, path, done.root)

\* The loop of build_avl_tree over the entries of one directory.
avl_entries(entries, r, st) ==
    IF entries = <<>> \/ st.panic THEN [root |-> r, st |-> st]
    ELSE LET entry == entries[1]
             rest == Tail(entries)
         IN  IF Fails("entry", entry) THEN avl_entries(rest, r, st)
             ELSE IF Fails("file_type", entry) \/ Fails("metadata", entry)
             THEN [root |-> r, st |-> [st EXCEPT !.panic = TRUE]]
             ELSE IF fs[entry].kind = "file"
             THEN avl_entries(rest,
                      insert_into_avl_tree(r,
                          FileMetadata(file_name(entry), entry, fs[entry].len, "File")),
                      st)
             ELSE IF fs[entry].kind = "dir"
             THEN avl_entries(rest, r, build_avl_tree(entry, st))
             ELSE avl_entries(rest,
                      insert_into_avl_tree(r,
                          FileMetadata(file_name(entry), entry, fs[entry].len, "Directory")),
                      st)

\* The result is [panic, ret]: ret is the Option<HashTable> returned.
build_hash_table(path, table) ==
    LET listing == read_dir(path)
    IN  IF listing = None THEN [panic |-> FALSE, ret |-> None]
        ELSE hash_entries(unwrap(listing), table)

\* The loop of build_hash_table, going into a directory whose get_size failed.
hash_entries_into_unsized(entries, table) ==
    IF entries = <<>> THEN [panic |-> FALSE, ret |-> Some(table)]
    ELSE LET entry == entries[1]
             rest == Tail(entries)
         IN  IF Fails("entry", entry) THEN hash_entries(rest, table)
             ELSE IF Fails("file_type", entry) THEN [panic |-> TRUE, ret |-> None]
             ELSE IF fs[entry].kind = "file" THEN hash_entries(rest, table)
             ELSE IF fs[entry].kind = "dir" THEN
                 LET dir_size == get_size(entry)
                     put == IF dir_size = None THEN Some(table)
                            ELSE HashTable_insert(table,
                                     FileMetadata(file_name(entry), entry,
                                                  unwrap(dir_size), "Directory"))
                 IN  IF put = None THEN [panic |-> TRUE, ret |-> None]
                     ELSE LET sub == build_hash_table(entry, unwrap(put))
                          IN  IF sub.panic \/ sub.ret = None THEN sub
                              ELSE hash_entries(rest, unwrap(sub.ret))
             ELSE hash_entries(rest, table)

\* The loop of build_hash_table over the entries of one directory.
hash_entries(entries, table) ==
    IF entries = <<>> THEN [panic |-> FALSE, ret |-> Some(table)]
    ELSE LET entry == entries[1]
             rest == Tail(entries)
         IN  IF Fails("entry", entry) THEN hash_entries(rest, table)
             ELSE IF Fails("file_type", entry) THEN [panic |-> TRUE, ret |-> None]
             ELSE IF fs[entry].kind = "file" THEN hash_entries(rest, table)
             ELSE IF fs[entry].kind = "dir" THEN
                 LET dir_size == get_size(entry)
                 IN  IF dir_size = None THEN hash_entries(rest, table)
                     ELSE LET put == HashTable_insert(table,
                                         FileMetadata(file_name(entry), entry,
                                                      unwrap(dir_size), "Directory"))
                          IN  IF put = None THEN [panic |-> TRUE, ret |-> None]
                              ELSE LET sub == build_hash_table(entry, unwrap(put))
                                   IN  IF sub.panic \/ sub.ret = None THEN sub
                                       ELSE hash_entries(rest, unwrap(sub.ret))
             ELSE hash_entries(rest, table)

----------------------------------------------------------------------------
(* Measures of a tree, used to state the properties *)

\* The height of a subtree as the number of nodes on its longest branch.
RECURSIVE Height(_)
Height(t) ==
    IF t = None THEN 0
    ELSE 1 + max(Height(unwrap(t).left), Height(unwrap(t).right))

\* In-order traversal: left subtree, node, right subtree.
RECURSIVE InOrder(_)
InOrder(t) ==
    IF t = None THEN <<>>
    ELSE InOrder(unwrap(t).left) \o unwrap(t).file \o InOrder(unwrap(t).right)

\* Every subtree of t, t included (None excluded).
RECURSIVE Subtrees(_)
Subtrees(t) ==
    IF t = None THEN {}
    ELSE {t} \cup Subtrees(unwrap(t).left) \cup Subtrees(unwrap(t).right)

Abs(n) == IF n < 0 THEN -n ELSE n

Balanced(t) ==
    \A s \in Subtrees(t) :
        Abs(Height(unwrap(s).left) - Height(unwrap(s).right)) <= 1

Sorted(es) ==
    \A i \in 1..(Len(es) - 1) : ~StrLess(es[i + 1].name, es[i].name)

\* The number of occurrences of x in the sequence s.
Count(s, x) == Cardinality({i \in 1..Len(s) : s[i] = x})

SameMultiset(s, t) ==
    /\ Len(s) = Len(t)
    /\ \A i \in 1..Len(s) : Count(s, s[i]) = Count(t, s[i])

----------------------------------------------------------------------------
(* Bounds and input sets *)

MaxInserts == 6

MaxBuckets == 3

MaxHashInserts == 3

\* "a", "b", "c"
Names == {<<97>>, <<98>>, <<99>>}

MaxWalkBuckets == 2

\* "/p", "/q"
AvlPaths == {<< <<112>> >>, << <<113>> >>}

\* Every name under "/p", and "a" and "b" under "/q" as well.
AvlEntries ==
    {FileMetadata(n, << <<112>> >>, 0, "File") : n \in Names}
        \cup {FileMetadata(n, << <<113>> >>, 0, "File") : n \in {<<97>>, <<98>>}}

\* Entries for the hash table: two that differ in file_type only, one that
\* differs from them in size only, one whose name is a double quote.
HashEntries ==
    {FileMetadata(<<97>>, << <<112>> >>, 0, "Directory"),
     FileMetadata(<<97>>, << <<112>> >>, 0, "File"),
     FileMetadata(<<97>>, << <<112>> >>, 10, "Directory"),
     FileMetadata(<<34>>, << <<112>>, <<113>> >>, 0, "Directory"),
     FileMetadata(<<98>>, << <<113>> >>, 0, "Directory")}

----------------------------------------------------------------------------
(* SpecAvl: one Ordered Index under arbitrary inserts and searches *)

AvlIdle ==
    /\ root = None
    /\ inserted = <<>>
    /\ found = None

HashIdle ==
    /\ hash_table = HashTable_new(0)
    /\ hinserted = <<>>
    /\ hpanic = FALSE
    /\ load = None

\* No index built: what a cycle starts from and what drop() leaves.
NoIndex == [avlvec |-> <<>>, visited |-> <<>>, hash_table |-> None]

WalkIdle ==
    /\ fs = <<>>
    /\ fault = None
    /\ order = <<>>
    /\ num_buckets = 0
    /\ pc = "idle"
    /\ cycle = NoIndex

InitAvl == AvlIdle /\ HashIdle /\ WalkIdle

\* root = Some(insert_into_avl_tree(root, file_metadata))   (lines 204, 215)
Insert(file) ==
    /\ Len(inserted) < MaxInserts
    /\ root' = insert_into_avl_tree(root, file)
    /\ inserted' = Append(inserted, file)
    /\ found' = None
    /\ UNCHANGED <<hashVars, walkVars>>

\* search_avl_tree(root, file_name)   (lines 454, 534, 561)
Search(file_path) ==
    /\ found' = Some(<<file_path, search_avl_tree(root, file_path)>>)
    /\ UNCHANGED <<root, inserted, hashVars, walkVars>>

NextAvl ==
    \/ \E file \in AvlEntries : Insert(file)
    \/ \E file_path \in AvlPaths : Search(file_path)

SpecAvl == InitAvl /\ [][NextAvl]_vars

\* The in-order sequence that results from placing each entry, in insertion
\* order, after every entry whose name is not greater than its own.
RECURSIVE StableByName(_)
StableByName(s) ==
    IF s = <<>> THEN <<>>
    ELSE LET e == s[Len(s)]
             prev == StableByName(SubSeq(s, 1, Len(s) - 1))
             k == Cardinality({i \in 1..Len(prev) : ~StrLess(e.name, prev[i].name)})
         IN  SubSeq(prev, 1, k) \o <<e>> \o SubSeq(prev, k + 1, Len(prev))

DistinctPaths(s) ==
    \A i, j \in 1..Len(s) : i # j => s[i].path # s[j].path

\* C1: after any sequence of insert_into_avl_tree calls from the empty tree,
\* every node has |height(left subtree) - height(right subtree)| <= 1 (an
\* absent child has height 0), and each node's height field is that height.
C1_BalanceInvariant ==
    /\ Balanced(root)
    /\ \A s \in Subtrees(root) : unwrap(s).height = Height(s)

\* Six entries of one name: each went to the right of all before it, and
\* rotations, below the root and at it, have kept the tree at three levels.
C1_Witness ==
    /\ Len(inserted) = 6
    /\ \A i \in 1..Len(inserted) : inserted[i].name = inserted[1].name
    /\ Height(root) = 3
    /\ Balanced(root)

\* C2: after any sequence of inserts, rotations included, the in-order
\* traversal of the tree is in non-decreasing order of name.
C2_OrderInvariant == Sorted(InOrder(root))

\* Three different names inserted in descending order: a right rotation has
\* put the middle name at the root.
C2_Witness ==
    /\ Len(inserted) >= 3
    /\ StrLess(inserted[2].name, inserted[1].name)
    /\ StrLess(inserted[3].name, inserted[2].name)
    /\ Height(root) = 2
    /\ Sorted(InOrder(root))

\* C3: with pairwise distinct paths inserted, search_avl_tree(root, e.path)
\* returns Some(e) for every inserted entry e.
C3_RoundTripLookup ==
    (DistinctPaths(inserted) /\ is_some(found)) =>
        \A i \in 1..Len(inserted) :
            inserted[i].path = unwrap(found)[1] =>
                unwrap(found)[2] = Some(inserted[i])

\* C10: the tree holds exactly the inserted entries, as many nodes as inserts,
\* and an entry stands in the in-order traversal after every earlier entry of
\* the same name (ties go right).
C10_NoEntryLost ==
    /\ Len(InOrder(root)) = Len(inserted)
    /\ SameMultiset(InOrder(root), inserted)
    /\ InOrder(root) = StableByName(inserted)

\* The same name inserted three times under different paths, and all three
\* retained.
C10_Witness ==
    /\ Len(inserted) >= 3
    /\ inserted[1].name = inserted[2].name
    /\ inserted[2].name = inserted[3].name
    /\ inserted[1].path # inserted[2].path
    /\ Len(InOrder(root)) = Len(inserted)

----------------------------------------------------------------------------
(* SpecHash: one HashTable under arbitrary inserts *)

\* HashTable::new(num_buckets)   (line 371)
InitHash ==
    /\ AvlIdle
    /\ WalkIdle
    /\ \E size \in 0..MaxBuckets : hash_table = HashTable_new(size)
    /\ hinserted = <<>>
    /\ hpanic = FALSE
    /\ load = None

\* hash_table.insert(file_metadata)   (line 112)
HashInsert(file) ==
    /\ ~hpanic
    /\ Len(hinserted) < MaxHashInserts
    /\ LET r == HashTable_insert(hash_table, file)
       IN  IF r = None
           THEN hpanic' = TRUE /\ UNCHANGED hash_table
           ELSE hash_table' = unwrap(r) /\ UNCHANGED hpanic
    /\ hinserted' = Append(hinserted, file)
    /\ load' = None
    /\ UNCHANGED <<avlVars, walkVars>>

\* print_hash_table(&hash_table)   (line 587)
PrintHashTable ==
    /\ ~hpanic
    /\ load' = Some(print_hash_table(hash_table))
    /\ UNCHANGED <<hash_table, hinserted, hpanic, avlVars, walkVars>>

NextHash ==
    \/ \E file \in HashEntries : HashInsert(file)
    \/ PrintHashTable

SpecHash == InitHash /\ [][NextHash]_vars

SameKey(x, y) == x.name = y.name /\ x.path = y.path /\ x.size = y.size

\* The indices of the buckets in which a scan for x's (name, path, size)
\* finds an entry.
BucketsHolding(buckets, x) ==
    {i \in 1..Len(buckets) : \E k \in 1..Len(buckets[i]) : SameKey(buckets[i][k], x)}

RECURSIVE TotalEntries(_)
TotalEntries(buckets) ==
    IF buckets = <<>> THEN 0
    ELSE Len(buckets[1]) + TotalEntries(Tail(buckets))

\* The bucket of x: FNV-1a of the text of (name, path, size), modulo len.
SlotOf(x, len) == rem(HashTable_hash(hash_key(x)), len) + 1

\* C7: an insert that returns appends the entry at the end of the bucket
\* Hash(e) mod bucket_count and leaves every other bucket and the number of
\* buckets as they were; entries with the same (name, path, size) share a
\* bucket; nothing is suppressed, so n inserts leave n entries, each found by
\* scanning its slot's bucket.
C7_InsertAppends ==
    [][(hinserted' # hinserted /\ ~hpanic') =>
        LET e == hinserted'[Len(hinserted')]
            old == hash_table.buckets
            new == hash_table'.buckets
            slot == SlotOf(e, Len(old))
        IN  /\ Len(new) = Len(old)
            /\ new[slot] = Append(old[slot], e)
            /\ \A i \in 1..Len(old) : i # slot => new[i] = old[i]
            /\ TotalEntries(new) = Len(hinserted')
            /\ \A i \in 1..Len(hinserted') :
                   BucketsHolding(new, hinserted'[i])
                       = {SlotOf(hinserted'[i], Len(new))}
            /\ Len(new[slot]) = Count(hinserted', e)
                   + Cardinality({i \in 1..Len(hinserted') :
                         /\ hinserted'[i] # e
                         /\ SlotOf(hinserted'[i], Len(new)) = slot})
       ]_vars

\* An equal entry inserted twice: two copies in one bucket, next to an entry
\* that differs from them in file_type only.
C7_Witness ==
    /\ ~hpanic
    /\ Len(hash_table.buckets) >= 2
    /\ \E i \in 1..Len(hash_table.buckets) :
          LET b == hash_table.buckets[i]
          IN  /\ Len(b) = 3
              /\ \E j, k \in 1..3 : j # k /\ b[j] = b[k]
              /\ \E j, k \in 1..3 : b[j].file_type # b[k].file_type

\* C9: the load factor printed for any table (any bucket count, any inserts)
\* is a number between 0 and 1, is 0 for a table with no entries, and is 1
\* only if every bucket is non-empty.
C9_LoadFactorBounds ==
    is_some(load) =>
        LET lf == unwrap(load).load_factor
        IN  /\ lf.kind = "ratio"
            /\ 0 <= lf.num /\ lf.num <= lf.den
            /\ (hinserted = <<>> => lf.num = 0)
            /\ (lf.num = lf.den =>
                   \A i \in 1..Len(hash_table.buckets) : hash_table.buckets[i] # <<>>)

----------------------------------------------------------------------------
(* SpecWalk: main's loop over a filesystem subtree *)

\* The directory typed by the user: "/r".
WalkRoot == << <<114>> >>

\* "a", "b": the names an entry below the root can have.
WalkNames == {<<97>>, <<98>>}

\* Two levels below the root.
WalkPaths ==
    {Append(WalkRoot, n) : n \in WalkNames}
        \cup {WalkRoot \o <<n, m>> : n \in WalkNames, m \in WalkNames}

Parent(path) == SubSeq(path, 1, Len(path) - 1)

\* What there can be at a path: nothing, a regular file, a directory, or
\* something that is neither (a symlink, a socket), with metadata().len().
Nodes ==
    {[kind |-> "absent", len |-> 0], [kind |-> "file", len |-> 5],
     [kind |-> "dir", len |-> 0], [kind |-> "other", len |-> 1]}

Filesystems ==
    {f \in [WalkPaths \cup {WalkRoot} -> Nodes] :
        /\ f[WalkRoot].kind = "dir"
        /\ \A p \in WalkPaths : f[p].kind # "absent" => f[Parent(p)].kind = "dir"}

\* The operations of the filesystem that can fail, each on one path.
Faults(f) ==
    {[op |-> "read_dir", path |-> p] : p \in {q \in DOMAIN f : f[q].kind = "dir"}}
        \cup {[op |-> "get_size", path |-> p] :
                 p \in {q \in WalkPaths : f[q].kind = "dir"}}
        \cup {[op |-> o, path |-> p] :
                 o \in {"entry", "file_type", "metadata"},
                 p \in {q \in WalkPaths : f[q].kind # "absent"}}

Orders == {o \in [1..Cardinality(WalkNames) -> WalkNames] : o[1] # o[2]}

InitWalk ==
    /\ AvlIdle
    /\ HashIdle
    /\ fs \in Filesystems
    /\ fault \in {None} \cup {Some(x) : x \in Faults(fs)}
    /\ order \in Orders
    /\ num_buckets \in 0..MaxWalkBuckets
    /\ pc = "start"
    /\ cycle = NoIndex

\* let mut avlvec = Vec::new(); build_avl_tree(&path, &mut avlvec);
BuildAvlTree ==
    /\ pc = "start"
    /\ LET st == build_avl_tree(WalkRoot,
                     [avlvec |-> <<>>, visited |-> <<>>, panic |-> FALSE])
       IN  IF st.panic
           THEN pc' = "panicked" /\ cycle' = NoIndex
           ELSE /\ pc' = "avl_built"
                /\ cycle' = [cycle EXCEPT !.avlvec = st.avlvec, !.visited = st.visited]
    /\ UNCHANGED <<fs, fault, order, num_buckets, avlVars, hashVars>>

\* let hash_table = build_hash_table(&path, HashTable::new(num_buckets)).unwrap();
BuildHashTable ==
    /\ pc = "avl_built"
    /\ LET r == build_hash_table(WalkRoot, HashTable_new(num_buckets))
       IN  IF r.panic \/ r.ret = None
           THEN pc' = "panicked" /\ cycle' = NoIndex
           ELSE pc' = "menu" /\ cycle' = [cycle EXCEPT !.hash_table = r.ret]
    /\ UNCHANGED <<fs, fault, order, num_buckets, avlVars, hashVars>>

\* A choice that leaves the filesystem alone (9, 10, an invalid one), then
\* drop(avlvec); drop(hash_table); and the loop starts over.
Display ==
    /\ pc = "menu"
    /\ pc' = "start"
    /\ cycle' = NoIndex
    /\ UNCHANGED <<fs, fault, order, num_buckets, avlVars, hashVars>>

\* Choice 11: break.
Exit ==
    /\ pc = "menu"
    /\ pc' = "exit"
    /\ cycle' = NoIndex
    /\ UNCHANGED <<fs, fault, order, num_buckets, avlVars, hashVars>>

NextWalk ==
    \/ BuildAvlTree
    \/ BuildHashTable
    \/ Display
    \/ Exit

SpecWalk == InitWalk /\ [][NextWalk]_vars

ProperPrefix(p, q) == Len(p) < Len(q) /\ SubSeq(q, 1, Len(p)) = p

\* p is path or lies below it.
Within(path, p) == p = path \/ ProperPrefix(path, p)

Dirs == {p \in WalkPaths : fs[p].kind = "dir"}

Files == {p \in WalkPaths : fs[p].kind = "file"}

RECURSIVE Flatten(_)
Flatten(buckets) ==
    IF buckets = <<>> THEN <<>> ELSE buckets[1] \o Flatten(Tail(buckets))

\* Every entry of the hash table of the cycle, bucket after bucket.
Hashed == IF is_some(cycle.hash_table)
          THEN Flatten(unwrap(cycle.hash_table).buckets) ELSE <<>>

HashedAt(path) == {k \in 1..Len(Hashed) : Hashed[k].path = path}

\* The places <<i, k>> of the entries for path in the Ordered Indexes.
IndexedAt(path) ==
    {ik \in UNION {{<<i, k>> : k \in 1..Len(InOrder(cycle.avlvec[i]))} :
                       i \in 1..Len(cycle.avlvec)} :
        InOrder(cycle.avlvec[ik[1]])[ik[2]].path = path}

VisitedAt(path) == {i \in 1..Len(cycle.visited) : cycle.visited[i] = path}

\* Each root of the list is the index of the directory recorded for it.
RootsMatchDirectories ==
    /\ Len(cycle.avlvec) = Len(cycle.visited)
    /\ \A i \in 1..Len(cycle.avlvec) :
           LET es == InOrder(cycle.avlvec[i])
           IN  \A k \in 1..Len(es) : Parent(es[k].path) = cycle.visited[i]

\* C4: when one operation on one entry fails during a cycle, the walk neither
\* aborts nor panics, and every directory outside the failing entry gets its
\* Ordered Index and (below the root) its hash-index entry.
C4_PartialFailureTolerance ==
    (is_some(fault) /\ num_buckets > 0) =>
        /\ pc # "panicked"
        /\ pc = "menu" =>
               /\ \A d \in Dirs \cup {WalkRoot} :
                      ~Within(unwrap(fault).path, d) => VisitedAt(d) # {}
               /\ \A d \in Dirs :
                      ~Within(unwrap(fault).path, d) => HashedAt(d) # {}

\* C5: in the list of roots a directory's Ordered Index stands before those
\* of the directories nested in it, the walk's root first.
C5_PreOrder ==
    pc \in {"avl_built", "menu"} =>
        /\ \A i, j \in 1..Len(cycle.visited) :
               ProperPrefix(cycle.visited[i], cycle.visited[j]) => i < j
        /\ cycle.visited # <<>> => cycle.visited[1] = WalkRoot

\* C5 as amended: a directory's Ordered Index stands after those of the
\* directories nested in it, the walk's root last; each root of the list holds
\* entries of its own directory only.
C5_PostOrder ==
    pc \in {"avl_built", "menu"} =>
        /\ RootsMatchDirectories
        /\ \A i, j \in 1..Len(cycle.visited) :
               ProperPrefix(cycle.visited[i], cycle.visited[j]) => j < i
        /\ cycle.visited # <<>> => cycle.visited[Len(cycle.visited)] = WalkRoot

\* A finished walk over three nested directories, each with an index.
C5_Witness ==
    /\ pc = "menu"
    /\ \E d \in Dirs :
          /\ Len(d) = 3
          /\ VisitedAt(d) # {}
          /\ VisitedAt(Parent(d)) # {}
          /\ VisitedAt(WalkRoot) # {}
          /\ \E f \in Files : Parent(f) = Parent(d)

\* C6: after a walk in which nothing fails, every directory below the root
\* has one entry in the hash table and none in an Ordered Index; every file
\* has none in the hash table and one entry, in the Ordered Index of its
\* parent; and every entry of an Ordered Index has kind File.
C6_Placement ==
    (pc = "menu" /\ fault = None) =>
        /\ RootsMatchDirectories
        /\ \A d \in Dirs :
               Cardinality(HashedAt(d)) = 1 /\ IndexedAt(d) = {}
        /\ \A f \in Files :
               /\ HashedAt(f) = {}
               /\ Cardinality(IndexedAt(f)) = 1
        /\ \A i \in 1..Len(cycle.avlvec) :
               LET es == InOrder(cycle.avlvec[i])
               IN  \A k \in 1..Len(es) : es[k].file_type = "File"

\* C8: when get_size fails for directory D, the cycle skips D: no hash entry
\* for D or below it, no Ordered Index for D or below it, and the siblings of
\* D are still indexed.
C8_SizeErrorSkipsDirectory ==
    \A D \in WalkPaths :
        (pc = "menu" /\ Fails("get_size", D)) =>
            /\ \A p \in WalkPaths : Within(D, p) => HashedAt(p) = {}
            /\ \A p \in WalkPaths : Within(D, p) => VisitedAt(p) = {}
            /\ \A d \in Dirs : ~Within(D, d) => Cardinality(HashedAt(d)) = 1

\* C8 as amended: when get_size fails for D, build_hash_table inserts no
\* entry for D or anything below it and goes on with D's siblings, each of
\* which is hashed once; build_avl_tree computes no size and still appends
\* the Ordered Index of D and of every directory nested in D.
C8_SizeErrorSkipsHashOnly ==
    \A D \in WalkPaths :
        (pc = "menu" /\ Fails("get_size", D)) =>
            /\ \A p \in WalkPaths : Within(D, p) => HashedAt(p) = {}
            /\ \A d \in Dirs : Within(D, d) => Cardinality(VisitedAt(d)) = 1
            /\ \A d \in Dirs : ~Within(D, d) => Cardinality(HashedAt(d)) = 1

\* get_size failed for a directory that holds a directory, listed before a
\* sibling directory that is hashed.
C8_Witness ==
    /\ pc = "menu"
    /\ \E D \in Dirs :
          /\ Fails("get_size", D)
          /\ Len(D) = 2
          /\ D = Append(WalkRoot, order[1])
          /\ \E d \in Dirs : ProperPrefix(D, d)
          /\ \E d \in Dirs : Len(d) = 2 /\ d # D /\ HashedAt(d) # {}

====
